---- MODULE Spec2Model ----
(***************************************************************************)
(* Model of the correlation-aware sanitizer of jie-mei/diff-privacy        *)
(* (src/algo.py, src/data.py, src/main.py).                                *)
(*                                                                         *)
(* Arithmetic.  The program computes with Python floats; the model uses    *)
(* exact rational arithmetic on scaled integers:                           *)
(*   - a privacy budget e is an integer number of 1/BudgetDen (0.05);      *)
(*   - theta is an integer number of 1/ThetaDen (0.25);                    *)
(*   - an entry of mat_L is an integer number of 1/LDen (0.5);             *)
(*   - an entry of mat_R is an integer number of 1/(BudgetDen*ThetaDen*    *)
(*     Scale), where every relation degree the bounds allow divides Scale, *)
(*     so that epsl / mat_L[i][i] is computed exactly by \div;             *)
(*   - a CIDP value is an integer number of 1/CidpOne;                     *)
(*   - a risk value cnt/total is the pair <<cnt, total>>, compared by      *)
(*     cross multiplication.                                               *)
(***************************************************************************)
EXTENDS Integers, Sequences, FiniteSets, TLC

----------------------------------------------------------------------------
(* Bounds of the model *)

\* users of a population given to compute_IDFA or compute_CIDP: the UIDs
\* 1..k, k <= NumUsers
NumUsers == 3
\* users of a population given to sanitize: the UIDs 1..k, k <= SanUsers
SanUsers == 2
\* users of a population given to compute_IDFA when its termination is
\* checked: the UIDs 1..k, k <= LiveUsers
LiveUsers == 2
\* number of distinct trajectories that can be observed
NumTrajs == 2
\* largest occurrence count of a trajectory in one ITD
MaxCount == 2
\* largest max_round handed to sanitize
MaxRound == 3
\* largest budget (in 1/BudgetDen) the optimizer loops may reach in the model
MaxBudget == 60
\* largest budget (in 1/BudgetDen) of a budget vector given to compute_CIDP
MaxEpslIn == 2
\* largest step (in 1/BudgetDen) of the monotonicity experiment
MaxStep == 1

----------------------------------------------------------------------------
(* Units and program constants *)

BudgetDen == 4 * 5
ThetaDen == 2 * 2
LDen == 1 + 1
Scale == 8 * 9 * 5 * 7
CidpOne == LDen * BudgetDen * ThetaDen * Scale

\* epsl_init = 0.1
EpslInit == 2
\* beta = 0.05
Beta == 1
\* theta = 0.25
Theta == 1

\* a budget e expressed in the unit of CIDP values
EpslAsCidp(e) == e * LDen * ThetaDen * Scale

\* the value None
None == [kind |-> "None"]

\* an exception raised and not caught
Raised(exc) == [kind |-> "raised", exc |-> exc]

----------------------------------------------------------------------------
(* data.py: Trajectory, ITD *)

\* Trajectory(locations): the tuple of locations; equality is structural
Trajectory(k) == <<3 * k + 1, 3 * k + 2, 3 * k + 3>>

Trajs == {Trajectory(k) : k \in 0 .. NumTrajs - 1}

Range(s) == {s[i] : i \in DOMAIN s}

\* ITD.trajectories: the distinct trajectories, in insertion order
trajectories(itd) == itd.ts

\* ITD.count
count(itd, t) == IF t \in DOMAIN itd.t2cnt THEN itd.t2cnt[t] ELSE 0

\* sequences of distinct trajectories, at least one
DistinctSeqs ==
  UNION {{s \in [1 .. n -> Trajs] : \A i, j \in 1 .. n : i # j => s[i] # s[j]}
           : n \in 1 .. NumTrajs}

\* ITD.__init__: the ITDs a builder can produce over Trajs with counts in cs
\* (ts is _ts, t2cnt is _t2cnt; a builder has added at least one trajectory)
ITDsOver(cs) ==
  UNION {{[ts |-> s, t2cnt |-> c] : c \in [Range(s) -> cs]} : s \in DistinctSeqs}

\* the ITDs with every count 1 and the trajectories in ascending order
MemberITDs ==
  {itd \in ITDsOver({1}) :
     \A i, j \in DOMAIN itd.ts : i < j => itd.ts[i][1] < itd.ts[j][1]}

\* load_ITDs: a population maps the UIDs 1..k to ITDs
PopulationsOver(itdset, n) == UNION {[1 .. k -> itdset] : k \in 0 .. n}

\* the population of the concrete scenario: A = 1, B = 2
ScenarioPop ==
  (1 :> [ts |-> <<Trajectory(0), Trajectory(1)>>,
         t2cnt |-> (Trajectory(0) :> 5 @@ Trajectory(1) :> 1)]) @@
  (2 :> [ts |-> <<Trajectory(0)>>, t2cnt |-> (Trajectory(0) :> 5)])

\* sorted(itds.keys())
RECURSIVE SortedSeq(_)
SortedSeq(S) ==
  IF S = {} THEN <<>>
  ELSE LET m == CHOOSE x \in S : \A y \in S : x <= y
       IN <<m>> \o SortedSeq(S \ {m})

\* the orders in which the dict itds is iterated (its insertion order): the
\* users were loaded in ascending or in descending order of UID
Orders(keys) ==
  {SortedSeq(keys),
   [i \in 1 .. Cardinality(keys) |-> SortedSeq(keys)[Cardinality(keys) + 1 - i]]}

\* sum(f[x] for x in S)
RECURSIVE SumOver(_, _)
SumOver(S, f) ==
  IF S = {} THEN 0
  ELSE LET x == CHOOSE y \in S : TRUE IN f[x] + SumOver(S \ {x}, f)

----------------------------------------------------------------------------
(* algo.py: risk *)

\* _risk: cnt / sum of the counts of traj over the population, as a fraction
_risk(cnt, traj, itds) ==
  <<cnt, SumOver(DOMAIN itds, [u \in DOMAIN itds |-> count(itds[u], traj)])>>

\* comparison of two fractions with positive denominators
RiskLess(v, w) == v[1] * w[2] < w[1] * v[2]
RiskGeq(v, p) == v[1] * p[2] >= p[1] * v[2]

\* the list [[t, _risk(itd.count(t), t, itds)] for t in itd.trajectories]
RiskOf(uid, itds, i) ==
  LET itd == itds[uid] t == trajectories(itd)[i]
  IN _risk(count(itd, t), t, itds)

\* _find_riskest: max(...) returns the first maximal element
_find_riskest(uid, itds) ==
  LET ts == trajectories(itds[uid])
      i == CHOOSE k \in DOMAIN ts :
             /\ \A j \in DOMAIN ts : ~ RiskLess(RiskOf(uid, itds, k), RiskOf(uid, itds, j))
             /\ \A j \in 1 .. k - 1 : RiskLess(RiskOf(uid, itds, j), RiskOf(uid, itds, k))
  IN ts[i]

\* sorted(tv, key=lambda x: x[1]): stable, ascending; the result lists the
\* positions of itd.trajectories in sorted order
SortedByRisk(uid, itds) ==
  LET ts == trajectories(itds[uid])
      before(i, j) == \/ RiskLess(RiskOf(uid, itds, i), RiskOf(uid, itds, j))
                      \/ /\ ~ RiskLess(RiskOf(uid, itds, j), RiskOf(uid, itds, i))
                         /\ i < j
      rank(i) == 1 + Cardinality({j \in DOMAIN ts : before(j, i)})
  IN [k \in DOMAIN ts |-> CHOOSE i \in DOMAIN ts : rank(i) = k]

\* risky[uid] = [t for t, v in sorted(tv, ...) if v >= p]
RiskyOf(uid, itds, p) ==
  LET ts == trajectories(itds[uid])
      srt == SortedByRisk(uid, itds)
      keep(i) == RiskGeq(RiskOf(uid, itds, i), p)
      kept == SelectSeq(srt, keep)
  IN [k \in DOMAIN kept |-> ts[kept[k]]]

----------------------------------------------------------------------------
(* algo.py: relations *)

\* _find_strong_relations: the users sharing uid's riskiest trajectory
\* (relations is a defaultdict: a user without relations maps to [])
_find_strong_relations(riskest) ==
  [uid \in DOMAIN riskest |->
     {v \in DOMAIN riskest : v # uid /\ riskest[v] = riskest[uid]}]

\* strong_relations[uid] of a defaultdict(list)
RelGet(rel, uid) == IF uid \in DOMAIN rel THEN rel[uid] ELSE {}

\* _find_weak_relations
_find_weak_relations(riskest, itds, strong_relations) ==
  [uid1 \in DOMAIN itds |->
     {uid2 \in DOMAIN itds :
        /\ uid1 # uid2
        /\ uid1 \in DOMAIN riskest
        /\ riskest[uid1] \in Range(trajectories(itds[uid2]))
        /\ uid2 \notin RelGet(strong_relations, uid1)}]

\* _affected_by
_affected_by(riskest, itds) ==
  LET strong_relations == _find_strong_relations(riskest)
      weak_relations == _find_weak_relations(riskest, itds, strong_relations)
  IN [v \in DOMAIN itds |->
        {v} \cup {k \in DOMAIN strong_relations : v \in strong_relations[k]}
            \cup {k \in DOMAIN weak_relations : v \in weak_relations[k]}]

----------------------------------------------------------------------------
(* algo.py: compute_CIDP *)

\* mat_R[i][j] for a strong relation of i to j: - epsl[idx2uid[i]]
StrongR(e) == - e * ThetaDen * Scale

\* the weak entry without the discount theta
WeakRNoTheta(e, theta) == - e * ThetaDen * Scale

\* mat_R[i][j] for a weak relation of i to j: - epsl[idx2uid[i]] * theta
WeakR(e, theta) == - e * theta * Scale

\* the diagonal entry with the operands of the division exchanged
DiagRSwapped(e, l) == (l * BudgetDen * BudgetDen * ThetaDen * Scale) \div (LDen * e)

\* mat_R[i][i] = epsl[idx2uid[i]] / mat_L[i][i]
DiagR(e, l) == (e * ThetaDen * Scale * LDen) \div l

\* The matrices are built in steps; a step names the values it works on by
\* drawing them from singleton sets, so that each is computed once.

\* one iteration of "for i in range(n)" (lines 120-136): the strong
\* relations S of i, then its weak relations W.  S and W are disjoint and do
\* not contain i, so the assignments of one iteration touch distinct entries.
RowStep(m, i, n, S, W, e, theta) ==
  [L |-> [a \in 1 .. n |-> [b \in 1 .. n |->
            IF a = b
            THEN m.L[a][a] + (IF a = i THEN Cardinality(S) + LDen * Cardinality(W)
                              ELSE IF a \in S THEN 1
                              ELSE IF a \in W THEN LDen
                              ELSE 0)
            ELSE IF (a = i /\ b \in S \cup W) \/ (b = i /\ a \in S \cup W)
                 THEN - LDen
                 ELSE m.L[a][b]]],
   R |-> [a \in 1 .. n |-> [b \in 1 .. n |->
            IF a = i /\ b \in S THEN StrongR(e[a])
            ELSE IF a = i /\ b \in W THEN WeakR(e[a], theta)
            ELSE IF b = i /\ a \in S THEN StrongR(e[a])
            ELSE IF b = i /\ a \in W THEN 0
            ELSE m.R[a][b]]]]

\* the loop "for i in range(n)" of lines 120-136, rows i..n
RECURSIVE RowLoop(_, _, _, _, _, _, _)
RowLoop(m, i, n, strong, weak, e, theta) ==
  IF i > n THEN m
  ELSE CHOOSE r \in {RowLoop(m1, i + 1, n, strong, weak, e, theta) :
                       m1 \in {RowStep(m, i, n, strong[i], weak[i], e, theta)}} : TRUE

\* lines 139-142: mat_R[i][i] = epsl / mat_L[i][i] where mat_L[i][i] is not 0
DiagLoop(m, n, e) ==
  [L |-> m.L,
   R |-> [a \in 1 .. n |-> [b \in 1 .. n |->
            IF a = b /\ m.L[a][a] # 0 THEN DiagR(e[a], m.L[a][a])
            ELSE m.R[a][b]]]]

\* lines 147-148: cidp, by index
CidpOf(m, n) ==
  [i \in 1 .. n |-> SumOver(1 .. n, [j \in 1 .. n |-> m.L[i][j] * m.R[j][i]])]

\* lines 115-148 on indices: n users, their budgets e and relations
MatricesOf(n, strong, weak, e, theta) ==
  CHOOSE m2 \in
    {DiagLoop(m1, n, e) :
       m1 \in {RowLoop(m0, 1, n, strong, weak, e, theta) :
         m0 \in {[L |-> [a \in 1 .. n |-> [b \in 1 .. n |-> 0]],
                  R |-> [a \in 1 .. n |-> [b \in 1 .. n |-> StrongR(e[a])]]]}}}
    : TRUE

\* lines 115-148 with every argument computed once
CidpByIndex(n, strong, weak, e, theta) ==
  CHOOSE c \in
    {CidpOf(m, nv) :
       m \in {MatricesOf(nv, sv, wv, ev, theta) :
                sv \in {strong}, wv \in {weak}, ev \in {e}, nv \in {n}},
       nv \in {n}}
    : TRUE

\* lines 109-110 and 116: the relations and budgets by index
ByIndex(itds, strong_relations, weak_relations, idx2uid, uid2idx, epsl, theta) ==
  CidpByIndex(Len(idx2uid),
              [i \in DOMAIN idx2uid |->
                 {uid2idx[u] : u \in RelGet(strong_relations, idx2uid[i])}],
              [i \in DOMAIN idx2uid |->
                 {uid2idx[u] : u \in RelGet(weak_relations, idx2uid[i])}],
              [i \in DOMAIN idx2uid |-> epsl[idx2uid[i]]],
              theta)

\* compute_CIDP(itds, riskest, epsl, theta)
compute_CIDP(itds, riskest, epsl, theta) ==
  CHOOSE cidp_ \in
    UNION {UNION {UNION {
      {[uid \in DOMAIN itds |-> c[uid2idx[uid]]] :
         c \in {ByIndex(itds, strong_relations, weak_relations, idx2uid,
                        uid2idx, epsl, theta)}}
      : uid2idx \in {[uid \in DOMAIN itds |->
                        CHOOSE i \in DOMAIN idx2uid : idx2uid[i] = uid]}}
      : weak_relations \in {_find_weak_relations(riskest, itds, strong_relations)}}
      : strong_relations \in {_find_strong_relations(riskest)},
        idx2uid \in {SortedSeq(DOMAIN itds)}}
    : TRUE

----------------------------------------------------------------------------
(* State *)

VARIABLES
  itds,         \* the population: UID -> ITD
  order,        \* the iteration order of the dict itds
  p,            \* sanitize: risk threshold, a fraction <<num, den>>
  max_round,    \* sanitize: maximum number of rounds
  theta,        \* compute_CIDP: weak correlation coefficient, in 1/ThetaDen
  pc,           \* position of the program
  risky,        \* sanitize: UID -> risky trajectories, ascending by risk
  round_,       \* sanitize: the loop variable of range(1, max_round)
  riskest,      \* the riskiest-trajectory assignment of the round
  epsl,         \* compute_IDFA: the budget vector, in 1/BudgetDen
  cidp,         \* the last result of compute_CIDP
  affected,     \* compute_IDFA: the affected-by lists
  cur,          \* compute_IDFA: position of "for uid in itds" in order
  noise_scale,  \* sanitize: UID -> sequence of scales <<loops, epsl>>
  result,       \* what sanitize returned or raised
  prev,         \* the result of compute_CIDP before the last experiment
  arg           \* the argument of the last experiment

vars == <<itds, order, p, max_round, theta, pc, risky, round_, riskest, epsl,
          cidp, affected, cur, noise_scale, result, prev, arg>>

\* the risk thresholds tried: 0, 1/2 (the default), 1 and 3/2
PValues == {<<0, 1>>, <<1, 2>>, <<1, 1>>, <<3, 2>>}

\* the riskiest-trajectory assignments over a population: some users, each
\* with one trajectory of its own ITD
RiskestAssignments(pop) ==
  UNION {{r \in [D -> Trajs] : \A u \in D : r[u] \in Range(trajectories(pop[u]))}
           : D \in SUBSET DOMAIN pop}

Empty == <<>>

\* sanitize(itds, p, max_round) is called by main on a loaded population
Init ==
  /\ itds \in PopulationsOver(ITDsOver(1 .. MaxCount), SanUsers) \cup {ScenarioPop}
  /\ order \in Orders(DOMAIN itds)
  /\ p \in PValues
  /\ max_round \in {1, MaxRound}
  /\ theta = Theta
  /\ pc = "sanitize"
  /\ risky = Empty /\ round_ = 0 /\ riskest = Empty /\ epsl = Empty
  /\ cidp = Empty /\ affected = Empty /\ cur = 0 /\ noise_scale = Empty
  /\ result = None /\ prev = Empty /\ arg = None

\* a caller is about to call compute_IDFA(itds, riskest)
InitIDFA ==
  /\ itds = Empty /\ order = <<>> /\ riskest = Empty
  /\ p = <<1, 2>> /\ max_round = 2 /\ theta = Theta
  /\ pc = "caller"
  /\ risky = Empty /\ round_ = 1 /\ epsl = Empty
  /\ cidp = Empty /\ affected = Empty /\ cur = 0 /\ noise_scale = Empty
  /\ result = None /\ prev = Empty /\ arg = None

\* compute_CIDP(itds, riskest, epsl, theta) is called on arbitrary arguments
InitCIDP ==
  /\ itds \in PopulationsOver(MemberITDs, NumUsers)
  /\ order = SortedSeq(DOMAIN itds)
  /\ riskest \in RiskestAssignments(itds)
  /\ epsl \in [DOMAIN itds -> 1 .. MaxEpslIn]
  /\ theta \in 1 .. ThetaDen - 1
  /\ p = <<1, 2>> /\ max_round = 2
  /\ pc = "cidp"
  /\ risky = Empty /\ round_ = 1
  /\ cidp = Empty /\ affected = Empty /\ cur = 0 /\ noise_scale = Empty
  /\ result = None /\ prev = Empty /\ arg = None

----------------------------------------------------------------------------
(* algo.py: compute_IDFA *)

\* compute_IDFA(itds, riskest) is called on a population of at most n users
\* and an assignment
Call(n) ==
  /\ pc = "caller"
  /\ itds' \in PopulationsOver(MemberITDs, n)
  /\ order' \in Orders(DOMAIN itds')
  /\ riskest' \in RiskestAssignments(itds')
  /\ pc' = "idfa"
  /\ UNCHANGED <<p, max_round, theta, risky, round_, epsl, cidp, affected,
                 cur, noise_scale, result, prev, arg>>

\* lines 162-166: the initial budgets, the first CIDP, the affected lists
IDFAStart ==
  /\ pc = "idfa"
  /\ LET epsl0 == [uid \in DOMAIN itds |-> EpslInit]
     IN /\ epsl' = epsl0
        /\ cidp' = compute_CIDP(itds, riskest, epsl0, Theta)
  /\ affected' = _affected_by(riskest, itds)
  /\ cur' = 1
  /\ pc' = "optimize"
  /\ UNCHANGED <<itds, order, p, max_round, theta, risky, round_, riskest,
                 noise_scale, result, prev, arg>>

\* lines 168-173, 180: the next user of "for uid in itds" and its branch
OptimizeUser ==
  /\ pc = "optimize"
  /\ cur <= Len(order)
  /\ LET uid == order[cur]
     IN IF uid \notin DOMAIN riskest
        THEN cur' = cur + 1 /\ pc' = pc
        ELSE IF EpslAsCidp(epsl[uid]) < cidp[uid] /\ cidp[uid] <= CidpOne
        THEN cur' = cur /\ pc' = "inc"
        ELSE IF cidp[uid] > CidpOne
        THEN cur' = cur /\ pc' = "dec"
        ELSE cur' = cur + 1 /\ pc' = pc
  /\ UNCHANGED <<itds, order, p, max_round, theta, risky, round_, riskest,
                 epsl, cidp, affected, noise_scale, result, prev, arg>>

\* the adjustment with the step applied in the wrong direction
AdjustBackwards(e, uids, d) ==
  [u \in DOMAIN e |-> IF u \in uids THEN e[u] - d ELSE e[u]]

\* for uid_ in affected[uid]: epsl[uid_] += d
Adjust(e, uids, d) == [u \in DOMAIN e |-> IF u \in uids THEN e[u] + d ELSE e[u]]

\* the budgets the model follows: within MaxBudget of zero
InBudget(e) == \A u \in DOMAIN e : - MaxBudget <= e[u] /\ e[u] <= MaxBudget

\* lines 174-179: one iteration of the increment loop
IncStep ==
  /\ pc = "inc"
  /\ \E uid \in {order[cur]} :
       /\ \E epsl1 \in {Adjust(epsl, affected[uid], Beta)} :
          \E cidp1 \in {compute_CIDP(itds, riskest, epsl1, Theta)} :
        /\ InBudget(epsl1)
        /\ epsl' = epsl1
        /\ cidp' = cidp1
        /\ IF cidp1[uid] > CidpOne
           THEN cur' = cur + 1 /\ pc' = "optimize"
           ELSE cur' = cur /\ pc' = pc
  /\ UNCHANGED <<itds, order, p, max_round, theta, risky, round_, riskest,
                 affected, noise_scale, result, prev, arg>>

\* lines 181-186: one iteration of the decrement loop
DecStep ==
  /\ pc = "dec"
  /\ \E uid \in {order[cur]} :
       /\ \E epsl1 \in {Adjust(epsl, affected[uid], - Beta)} :
          \E cidp1 \in {compute_CIDP(itds, riskest, epsl1, Theta)} :
        /\ InBudget(epsl1)
        /\ epsl' = epsl1
        /\ cidp' = cidp1
        /\ IF cidp1[uid] <= CidpOne
           THEN cur' = cur + 1 /\ pc' = "optimize"
           ELSE cur' = cur /\ pc' = pc
  /\ UNCHANGED <<itds, order, p, max_round, theta, risky, round_, riskest,
                 affected, noise_scale, result, prev, arg>>

\* lines 188-189: return epsl (to line 220 of sanitize)
IDFAReturn ==
  /\ pc = "optimize"
  /\ cur > Len(order)
  /\ pc' = "scale"
  /\ UNCHANGED <<itds, order, p, max_round, theta, risky, round_, riskest,
                 epsl, cidp, affected, cur, noise_scale, result, prev, arg>>

StepIDFA == IDFAStart \/ OptimizeUser \/ IncStep \/ DecStep \/ IDFAReturn

CallIDFA == Call(NumUsers)

NextIDFA == CallIDFA \/ StepIDFA

SpecIDFA == InitIDFA /\ [][NextIDFA]_vars

CallLive == Call(LiveUsers)

NextLive == CallLive \/ StepIDFA

\* compute_IDFA is sequential code: a step that can be taken is taken
FairIDFA == InitIDFA /\ [][NextLive]_vars /\ WF_vars(NextLive)

----------------------------------------------------------------------------
(* compute_CIDP as a function of its arguments *)

\* a call compute_CIDP(itds, riskest, epsl, theta)
CallCIDP ==
  /\ pc = "cidp"
  /\ cidp' = compute_CIDP(itds, riskest, epsl, theta)
  /\ pc' = "cidp_ret"
  /\ UNCHANGED <<itds, order, p, max_round, theta, risky, round_, riskest,
                 epsl, affected, cur, noise_scale, result, prev, arg>>

\* a second call, after every budget of affected[u] was raised by a step
BumpAffected ==
  /\ pc = "cidp_ret"
  /\ \E u \in DOMAIN itds, step \in 1 .. MaxStep :
       /\ affected' = _affected_by(riskest, itds)
       /\ epsl' = Adjust(epsl, affected'[u], step)
       /\ cidp' = compute_CIDP(itds, riskest, epsl', theta)
       /\ prev' = cidp
       /\ arg' = u
  /\ pc' = "bumped"
  /\ UNCHANGED <<itds, order, p, max_round, theta, risky, round_, riskest,
                 cur, noise_scale, result>>

\* the renamings of a set of UIDs that exchange two of them
Renamings(uids) ==
  {[w \in uids |-> IF w = u THEN v ELSE IF w = v THEN u ELSE w] :
     <<u, v>> \in {x \in uids \X uids : x[1] < x[2]}}

\* the mapping m with every key u renamed to f[u]
Renamed(m, f) ==
  [v \in {f[u] : u \in DOMAIN m} |-> m[CHOOSE u \in DOMAIN m : f[u] = v]]

\* a second call, on the same users under other UIDs
RenameUsers ==
  /\ pc = "cidp_ret"
  /\ \E f \in Renamings(DOMAIN itds) :
       /\ itds' = Renamed(itds, f)
       /\ riskest' = Renamed(riskest, f)
       /\ epsl' = Renamed(epsl, f)
       /\ cidp' = compute_CIDP(itds', riskest', epsl', theta)
       /\ prev' = cidp
       /\ arg' = f
  /\ pc' = "renamed"
  /\ UNCHANGED <<order, p, max_round, theta, risky, round_, affected, cur,
                 noise_scale, result>>

NextCIDP == CallCIDP \/ BumpAffected

SpecCIDP == InitCIDP /\ [][NextCIDP]_vars

NextRename == CallCIDP \/ RenameUsers

SpecRename == InitCIDP /\ [][NextRename]_vars

----------------------------------------------------------------------------
(* algo.py: sanitize, and its caller main.py: main *)

\* lines 197-205: the noise-scale record and the risky queues
SanitizeStart ==
  /\ pc = "sanitize"
  /\ noise_scale' = [uid \in DOMAIN itds |-> <<>>]
  /\ risky' = [uid \in DOMAIN itds |-> RiskyOf(uid, itds, p)]
  /\ round_' = 0
  /\ pc' = "round"
  /\ UNCHANGED <<itds, order, p, max_round, theta, riskest, epsl, cidp,
                 affected, cur, result, prev, arg>>

\* line 207: range(1, max_round) is exhausted; the function ends without a
\* return statement and gives None
LoopEnd ==
  /\ pc = "round"
  /\ round_ + 1 >= max_round
  /\ result' = None
  /\ pc' = "return"
  /\ UNCHANGED <<itds, order, p, max_round, theta, risky, round_, riskest,
                 epsl, cidp, affected, cur, noise_scale, prev, arg>>

\* the pop taken from the front of the queue, pop(0)
PopFront(q) ==
  [uid \in {u \in DOMAIN q : q[u] # <<>>} |-> q[uid][1]]

\* {uid: risky[uid].pop() for uid in itds if risky[uid]}
PopRiskest(q) ==
  [uid \in {u \in DOMAIN q : q[u] # <<>>} |-> q[uid][Len(q[uid])]]

\* the queues after the pops
PopRest(q) ==
  [uid \in DOMAIN q |->
     IF q[uid] # <<>> THEN SubSeq(q[uid], 1, Len(q[uid]) - 1) ELSE q[uid]]

\* lines 207-217 when no user has a risky trajectory: break; the function
\* ends without a return statement and gives None
RoundBreak ==
  /\ pc = "round"
  /\ round_ + 1 < max_round
  /\ PopRiskest(risky) = Empty
  /\ round_' = round_ + 1
  /\ riskest' = Empty
  /\ result' = None
  /\ pc' = "return"
  /\ UNCHANGED <<itds, order, p, max_round, theta, risky, epsl, cidp,
                 affected, cur, noise_scale, prev, arg>>

\* lines 207-220: the round's riskiest trajectories; compute_IDFA is called
RoundStart ==
  /\ pc = "round"
  /\ round_ + 1 < max_round
  /\ PopRiskest(risky) # Empty
  /\ round_' = round_ + 1
  /\ riskest' = PopRiskest(risky)
  /\ risky' = PopRest(risky)
  /\ pc' = "idfa"
  /\ UNCHANGED <<itds, order, p, max_round, theta, epsl, cidp, affected, cur,
                 noise_scale, result, prev, arg>>

\* lines 225-229: the count at which the risk is below p
RECURSIVE ReducedCnt(_, _, _, _)
ReducedCnt(cnt, t, pop, q) ==
  IF ~ RiskGeq(_risk(cnt, t, pop), q) THEN cnt
  ELSE ReducedCnt(cnt - 1, t, pop, q)

\* line 230: loops
Loops(uid, t, pop, q) ==
  count(pop[uid], t) - ReducedCnt(count(pop[uid], t), t, pop, q)

\* the positions of order whose user is in riskest and has budget 0: there
\* loops / epsl_opt[uid] raises ZeroDivisionError
ZeroAt == {i \in DOMAIN order : order[i] \in DOMAIN riskest /\ epsl[order[i]] = 0}

\* lines 222-234: one noise scale loops / epsl_opt[uid] per user of riskest
NoiseScale ==
  /\ pc = "scale"
  /\ LET stop == IF ZeroAt = {} THEN Len(order) + 1
                 ELSE CHOOSE i \in ZeroAt : \A j \in ZeroAt : i <= j
         done == {order[i] : i \in 1 .. stop - 1} \cap DOMAIN riskest
     IN /\ noise_scale' =
             [uid \in DOMAIN noise_scale |->
                IF uid \in done
                THEN Append(noise_scale[uid],
                            <<Loops(uid, riskest[uid], itds, p), epsl[uid]>>)
                ELSE noise_scale[uid]]
        /\ IF ZeroAt = {}
           THEN pc' = "noise" /\ result' = result
           ELSE pc' = "raised" /\ result' = Raised("ZeroDivisionError")
  /\ UNCHANGED <<itds, order, p, max_round, theta, risky, round_, riskest,
                 epsl, cidp, affected, cur, prev, arg>>

\* a scale loops / epsl is negative: np.random.laplace raises ValueError
NegativeScale(sc) == (sc[1] > 0 /\ sc[2] < 0) \/ (sc[1] < 0 /\ sc[2] > 0)

\* lines 236-244: the noised counts, returned from inside the round loop.
\* A released count is the true count plus one Laplace draw per scale of the
\* user's record; the model keeps the count and the scales of the draws.
AddNoise ==
  /\ pc = "noise"
  /\ IF \E uid \in DOMAIN itds :
          \E i \in DOMAIN noise_scale[uid] : NegativeScale(noise_scale[uid][i])
     THEN pc' = "raised" /\ result' = Raised("ValueError")
     ELSE /\ pc' = "return"
          /\ result' = [kind |-> "mapping",
                         value |-> [uid \in DOMAIN itds |->
                            [t \in Range(trajectories(itds[uid])) |->
                               [cnt |-> count(itds[uid], t),
                                scales |-> noise_scale[uid]]]]]
  /\ UNCHANGED <<itds, order, p, max_round, theta, risky, round_, riskest,
                 epsl, cidp, affected, cur, noise_scale, prev, arg>>

\* main.py lines 7-14: noise[uid][t] is read for every trajectory of every
\* user; on None this raises TypeError
MainPrint ==
  /\ pc = "return"
  /\ IF result = None /\ DOMAIN itds # {}
     THEN pc' = "raised" /\ result' = Raised("TypeError")
     ELSE pc' = "done" /\ result' = result
  /\ UNCHANGED <<itds, order, p, max_round, theta, risky, round_, riskest,
                 epsl, cidp, affected, cur, noise_scale, prev, arg>>

Next ==
  \/ SanitizeStart \/ LoopEnd \/ RoundBreak \/ RoundStart
  \/ IDFAStart \/ OptimizeUser \/ IncStep \/ DecStep \/ IDFAReturn
  \/ NoiseScale \/ AddNoise \/ MainPrint

Spec == Init /\ [][Next]_vars

----------------------------------------------------------------------------
(* Properties of compute_IDFA, under SpecIDFA and FairIDFA *)

\* C1: the budget vector returned by compute_IDFA gives CIDP[u] <= 1 to
\* every user u of the riskiest assignment, CIDP being compute_CIDP on the
\* returned vector.
C1_ReturnedBudgetsBoundCIDP ==
  pc = "scale" =>
    \A u \in DOMAIN riskest :
      compute_CIDP(itds, riskest, epsl, Theta)[u] <= CidpOne

\* C4: every value of the budget vector is strictly positive in every state
\* of compute_IDFA, after each increment or decrement step and at return.
C4_BudgetsPositive ==
  pc \in {"optimize", "inc", "dec", "scale"} =>
    \A u \in DOMAIN epsl : epsl[u] > 0

\* C7: every inner search loop of compute_IDFA terminates, and compute_IDFA
\* returns, for every population and riskiest assignment.
C7_LoopsTerminate ==
  /\ (pc \in {"inc", "dec"}) ~> (pc = "optimize")
  /\ (pc = "idfa") ~> (pc = "scale")

\* compute_IDFA has returned after its loops moved the budgets of two users
C7_Witness ==
  /\ pc = "scale"
  /\ Cardinality({u \in DOMAIN epsl : epsl[u] > EpslInit}) > 1

----------------------------------------------------------------------------
(* Properties of compute_CIDP, under SpecCIDP and SpecRename *)

\* u has no strong or weak relation to any user and no user has a weak
\* relation to u
NoRelations(u) ==
  LET strong_relations == _find_strong_relations(riskest)
      weak_relations == _find_weak_relations(riskest, itds, strong_relations)
  IN /\ RelGet(strong_relations, u) = {}
     /\ weak_relations[u] = {}
     /\ \A v \in DOMAIN itds : u \notin weak_relations[v]

\* C5: a user u without relations gets CIDP[u] = epsl[u] exactly.
C5_UnrelatedUserGetsEpsl ==
  pc = "cidp_ret" =>
    \A u \in DOMAIN itds : NoRelations(u) => cidp[u] = EpslAsCidp(epsl[u])

\* C8: renaming the UIDs (ITDs, riskiest trajectories and budgets carried
\* along) gives every user the same CIDP value as before.
C8_RenamingKeepsCIDP ==
  pc = "renamed" => \A u \in DOMAIN prev : cidp[arg[u]] = prev[u]

\* C9: raising every budget of affected[u] by a step > 0 does not make
\* CIDP[u] smaller.
C9_Monotone ==
  pc = "bumped" => cidp[arg] >= prev[arg]

\* the budgets of a user with relations pointing at it were raised, and its
\* CIDP grew
C9_Witness ==
  /\ pc = "bumped"
  /\ Cardinality(affected[arg]) > 1
  /\ cidp[arg] > prev[arg]

----------------------------------------------------------------------------
(* Properties of sanitize, under Spec *)

\* C2: sanitize terminates normally and returns a mapping that has, for
\* every user of the population, an entry for every trajectory of the user.
C2_ReturnsFullMapping ==
  pc \in {"return", "raised", "done"} =>
    /\ result.kind = "mapping"
    /\ \A uid \in DOMAIN itds :
         /\ uid \in DOMAIN result.value
         /\ Range(trajectories(itds[uid])) \subseteq DOMAIN result.value[uid]

\* C3: when sanitize returns, max_round being larger than the longest risky
\* queue, no user has a queued trajectory left, and every trajectory with
\* risk >= p has contributed one noise scale to its user's record.
C3_RunsUntilNoRiskyLeft ==
  (/\ pc = "return"
   /\ \A uid \in DOMAIN itds : max_round > Len(RiskyOf(uid, itds, p))) =>
    \A uid \in DOMAIN itds :
      /\ risky[uid] = <<>>
      /\ Len(noise_scale[uid]) = Len(RiskyOf(uid, itds, p))

\* the first call of compute_CIDP in the scenario A = {(1,2,3): 5,
\* (4,5,6): 1}, B = {(1,2,3): 5}, p = 0.5: every budget is epsl_init
ScenarioFirstCIDP ==
  /\ itds = ScenarioPop
  /\ p = <<1, 2>>
  /\ pc = "optimize"
  /\ cur = 1

\* C6 as stated: in the scenario both users' riskiest trajectory is
\* (1,2,3), they form a strong relation, and CIDP[A] = CIDP[B].
C6_ScenarioSymmetric ==
  ScenarioFirstCIDP =>
    /\ riskest[1] = Trajectory(0)
    /\ riskest[2] = Trajectory(0)
    /\ _find_strong_relations(riskest)[1] = {2}
    /\ cidp[1] = cidp[2]

\* C6, amended: in the scenario the riskiest trajectory of A is (4,5,6) and
\* that of B is (1,2,3); there is no strong relation, B has a weak relation
\* to A, and CIDP[A] = 0.125, CIDP[B] = 0.1.
C6_ScenarioWeak ==
  ScenarioFirstCIDP =>
    /\ riskest[1] = Trajectory(1)
    /\ riskest[2] = Trajectory(0)
    /\ _find_strong_relations(riskest) = [u \in {1, 2} |-> {}]
    /\ _find_weak_relations(riskest, itds, _find_strong_relations(riskest))
         = (1 :> {} @@ 2 :> {1})
    /\ cidp[1] * 8 = CidpOne
    /\ cidp[2] * 10 = CidpOne

C6_Witness == ScenarioFirstCIDP /\ epsl = [u \in {1, 2} |-> EpslInit]

\* the first round's assignment has just been taken
FirstRound == pc = "idfa" /\ round_ = 1

\* C10 as stated: the riskiest trajectory of the first round is
\* _find_riskest(uid, itds), the first maximum in the ITD's order.
C10_FirstMaximum ==
  FirstRound =>
    \A uid \in DOMAIN riskest : riskest[uid] = _find_riskest(uid, itds)

\* the position of trajectory t in the ITD of uid
PosOf(uid, t) ==
  CHOOSE i \in DOMAIN trajectories(itds[uid]) : trajectories(itds[uid])[i] = t

\* the positions of the ITD of uid whose risk is maximal
MaxPos(uid) ==
  {i \in DOMAIN trajectories(itds[uid]) :
     \A j \in DOMAIN trajectories(itds[uid]) :
       ~ RiskLess(RiskOf(uid, itds, i), RiskOf(uid, itds, j))}

\* C10, amended: the users of the first round's assignment are those with a
\* trajectory of risk >= p; the trajectory assigned has maximal risk, ties
\* broken by the last maximum in the ITD's order; it is
\* _find_riskest(uid, itds) when the maximum is attained once.
C10_LastMaximum ==
  FirstRound =>
    /\ DOMAIN riskest =
         {uid \in DOMAIN itds :
            \E i \in DOMAIN trajectories(itds[uid]) :
              RiskGeq(RiskOf(uid, itds, i), p)}
    /\ \A uid \in DOMAIN riskest :
         /\ PosOf(uid, riskest[uid]) \in MaxPos(uid)
         /\ \A j \in MaxPos(uid) : j <= PosOf(uid, riskest[uid])
         /\ Cardinality(MaxPos(uid)) = 1 =>
              riskest[uid] = _find_riskest(uid, itds)

\* a user whose maximal risk is attained by two trajectories got the later
\* one
C10_Witness ==
  /\ FirstRound
  /\ \E uid \in DOMAIN riskest :
       /\ Cardinality(MaxPos(uid)) > 1
       /\ riskest[uid] # _find_riskest(uid, itds)

====
